---- MODULE Spec2Model ----
(***************************************************************************)
(* A model of the AML virtual machine of gopher-os                         *)
(* (src/src/gopheros/device/acpi/aml/vm.go): VM construction, Init (table  *)
(* loading, integer width, dispatch table, static initialization of       *)
(* buffers), Lookup, Visit and the instruction loop execBlock.             *)
(*                                                                         *)
(* The specifications of the module:                                       *)
(*   Spec        the life of one VM from NewVM through Init                *)
(*   SpecExec    one call of execBlock on one execution context            *)
(*   SpecLookup  calls of Lookup on a constructed VM                       *)
(*   SpecVisit   a call of Visit with the wildcard filter                  *)
(*   SpecRepass  Init, and a second static-initialization pass after it    *)
(*   SpecNested  execBlock on blocks that hold If and While instructions   *)
(*   SpecTwo     execBlock on two execution contexts, interleaved          *)
(*   SpecAll     Init, and Lookup, Visit and execBlock on the VM after it  *)
(*                                                                         *)
(* The table resolver, the byte-code parser and the opcode handlers are    *)
(* collaborators of vm.go: their answers are inputs, drawn here from small *)
(* sets.  scopeVisit, scopeFindRelative and vmConvert belong to the        *)
(* package but live in other files; they are modelled from their           *)
(* description in the specification of the package.                        *)
(***************************************************************************)
EXTENDS Naturals, Sequences, FiniteSets, TLC

(***************************************************************************)
(* Bounds of the model.                                                    *)
(***************************************************************************)
\* the largest declared buffer size
MaxSize == 2
\* the longest initial buffer payload
MaxData == 2
\* the largest revision field of a table header
MaxRevision == 3
\* the longest instruction list given to execBlock
MaxInstr == 3
\* the number of distinct opcodes appearing in instruction lists
MaxOpcode == 2
\* the largest number of name segments in a path given to Lookup
MaxSegs == 2
\* the longest body of an If or a While
MaxBody == 2
\* the most iterations of a While
MaxIter == 2
\* the longest block run on each of two contexts
MaxTwoInstr == 2

(***************************************************************************)
(* Values.  A pointer that may be nil (an *Error, a table header, a        *)
(* payload entity) is a sequence of length 0 (nil) or 1.                   *)
(***************************************************************************)
Nil == <<>>

\* Error.message of the package-level error values
errConversionFromEmptyString == "vmConvert: conversion from String requires a non-empty value"

\* ctrlFlowType
ctrlFlowTypeNextOpcode == 0
ctrlFlowTypeBreak == 1
ctrlFlowTypeContinue == 2
ctrlFlowTypeFnReturn == 3

CtrlFlowTypes ==
    {ctrlFlowTypeNextOpcode, ctrlFlowTypeBreak, ctrlFlowTypeContinue, ctrlFlowTypeFnReturn}

(***************************************************************************)
(* The entity tree.  An entity is a record                                 *)
(*   kind      "Scope" | "Named" | "Method" | "Buffer"                     *)
(*   name      its name, a sequence of characters (empty when unnamed)     *)
(*   size      a buffer's size operand (an AML value, not yet an integer)  *)
(*   hasData   whether a buffer's data slice is non-nil                    *)
(*   data      a buffer's payload bytes                                    *)
(*   arg       a named entity's args[0] when that is an Entity, else Nil   *)
(*   children  a scoped entity's children, in insertion order              *)
(***************************************************************************)
\* a name segment of the namespace: four characters
Name(a, b, c, d) == << a, b, c, d >>

IntOperand(n) == [typ |-> "Integer", int |-> n, str |-> ""]

StrOperand(s) == [typ |-> "String", int |-> 0, str |-> s]

ScopeEnt(name, children) ==
    [kind |-> "Scope", name |-> name, size |-> IntOperand(0), hasData |-> FALSE,
     data |-> <<>>, arg |-> Nil, children |-> children]

MethodEnt(name, children) ==
    [kind |-> "Method", name |-> name, size |-> IntOperand(0), hasData |-> FALSE,
     data |-> <<>>, arg |-> Nil, children |-> children]

NamedEnt(name, arg) ==
    [kind |-> "Named", name |-> name, size |-> IntOperand(0), hasData |-> FALSE,
     data |-> <<>>, arg |-> arg, children |-> <<>>]

BufferEnt(size, hasData, data) ==
    [kind |-> "Buffer", name |-> <<>>, size |-> size, hasData |-> hasData,
     data |-> data, arg |-> Nil, children |-> <<>>]

\* defaultACPIScopes: the root scope and the five predefined scopes
defaultACPIScopes ==
    ScopeEnt(<< "\\" >>, << ScopeEnt(Name("_", "G", "P", "E"), <<>>), ScopeEnt(Name("_", "P", "R", "_"), <<>>),
                      ScopeEnt(Name("_", "S", "B", "_"), <<>>), ScopeEnt(Name("_", "S", "I", "_"), <<>>),
                      ScopeEnt(Name("_", "T", "Z", "_"), <<>>) >>)

\* scopeEntity.Append, as the parser uses it to add a table's entities
AppendAll(scope, ents) == [scope EXCEPT !.children = @ \o ents]

(***************************************************************************)
(* Inputs: what the resolver and the parser may answer.                    *)
(***************************************************************************)
TableNames == <<"DSDT", "SSDT">>

\* a table header, reduced to the field Init reads
Headers == {[Revision |-> r] : r \in 0..MaxRevision}

\* the answers of tableResolver.LookupTable: nil or a header
Resolvers == [{"DSDT", "SSDT"} -> {Nil} \cup {<<h>> : h \in Headers}]

\* the errors ParseAML may report: a module name and a message
ParseErrors ==
    {[Module |-> "acpi_aml_parser", Message |-> "could not parse AML bytecode"],
     [Module |-> "acpi_aml", Message |-> "unexpected opcode"]}

\* size operands: integers, and the empty string (whose conversion fails)
SizeOperands == {IntOperand(n) : n \in 0..MaxSize} \cup {StrOperand("")}

\* the i-th byte of an initializer
InitByte(i) == 16 * i + (i % 2)

InitBytes(n) == [i \in 1..n |-> InitByte(i)]

\* buffers as the parser leaves them: no payload, or an initializer
ParsedBuffers ==
    {BufferEnt(sz, FALSE, <<>>) : sz \in SizeOperands}
    \cup {BufferEnt(sz, TRUE, InitBytes(n)) : sz \in SizeOperands, n \in 0..MaxData}

\* what the primary table may declare at the top level
DSDTContents ==
    {<<>>, << NamedEnt(Name("V", "A", "L", "0"), Nil) >>}
    \cup {<< b >> : b \in ParsedBuffers}
    \cup {<< NamedEnt(Name("B", "U", "F", "0"), <<b>>) >> : b \in ParsedBuffers}
    \cup {<< MethodEnt(Name("M", "T", "H", "0"), <<b>>) >> : b \in ParsedBuffers}
    \cup {<< NamedEnt(Name("N", "M", "T", "0"), << MethodEnt(Name("M", "T", "H", "1"), <<b>>) >>) >> : b \in ParsedBuffers}
    \cup {<< ScopeEnt(Name("S", "C", "P", "0"), << NamedEnt(Name("B", "U", "F", "1"), <<b>>),
                                 BufferEnt(IntOperand(MaxSize), FALSE, <<>>) >>) >>
             : b \in ParsedBuffers}
    \cup {<< ScopeEnt(Name("S", "C", "P", "1"), << MethodEnt(Name("M", "T", "H", "2"), <<b>>),
                                 NamedEnt(Name("B", "U", "F", "2"), <<b>>) >>) >>
             : b \in ParsedBuffers}

\* what a secondary table may declare at the top level
SSDTContents ==
    {<<>>,
     << BufferEnt(IntOperand(1), FALSE, <<>>) >>,
     << NamedEnt(Name("B", "U", "F", "3"), << BufferEnt(StrOperand(""), TRUE, InitBytes(1)) >>) >>,
     << MethodEnt(Name("M", "T", "H", "3"), << BufferEnt(IntOperand(1), FALSE, <<>>) >>) >>,
     << ScopeEnt(Name("S", "C", "P", "2"), << BufferEnt(IntOperand(MaxSize), TRUE, InitBytes(1)) >>) >>}

TableContents(tableName) == IF tableName = "DSDT" THEN DSDTContents ELSE SSDTContents

(***************************************************************************)
(* State.                                                                  *)
(***************************************************************************)
VARIABLES
    \* --- the VM and the progress of Init
    pc,               \* "tables" | "populate" | "check" | "done" | "repassed"
    tableIndex,       \* Init's loop index over TableNames (0-based)
    resolver,         \* vm.tableResolver: table name -> header or Nil
    rootNS,           \* vm.rootNS
    sizeOfIntInBits,  \* vm.sizeOfIntInBits
    jumpTableBuilt,   \* whether populateJumpTable has filled vm.jumpTable
    initErr,          \* what Init returned: Nil or <<message>>
    calls,            \* history: the calls Init has made, in order
    visitLog,         \* history: what the visitor of checkEntities did, in order
    nsBefore,         \* history: vm.rootNS when checkEntities was entered
    \* --- one call of execBlock
    xpc,              \* "idle" | "loop" | "done"
    instrList,        \* block.Children(), as opcodes
    instrIndex,       \* the loop index of execBlock (0-based)
    ctx,              \* the execContext
    ctx0,             \* history: the execContext when execBlock was entered
    execErr,          \* what execBlock returned: Nil or <<message>>
    executed,         \* history: the handler invocations, in order
    \* --- Lookup
    lookupPath,       \* the argument of the last call of Lookup
    lookupResult,     \* what it returned
    \* --- Visit
    vpc,              \* "idle" | "done"
    visitor,          \* the visitor given to Visit
    visitCalls,       \* history: the invocations of that visitor, in order
    \* --- execBlock on nested blocks
    npc,              \* "idle" | "run" | "done"
    frames,           \* the active calls of execBlock, innermost last
    nctx,             \* the execContext they share
    nerr,             \* what the outermost execBlock returned
    ntrace,           \* history: what ran, in order
    \* --- execBlock on several contexts
    runs              \* per context: one call of execBlock

vmVars == <<pc, tableIndex, resolver, rootNS, sizeOfIntInBits, jumpTableBuilt,
            initErr, calls, visitLog, nsBefore>>

execVars == <<xpc, instrList, instrIndex, ctx, ctx0, execErr, executed>>

lookupVars == <<lookupPath, lookupResult>>

visitVars == <<vpc, visitor, visitCalls>>

nestVars == <<npc, frames, nctx, nerr, ntrace>>

otherVars == <<visitVars, nestVars, runs>>

vars == <<vmVars, execVars, lookupVars, otherVars>>

(***************************************************************************)
(* Init: the integer width, and the error made from a parser error.        *)
(***************************************************************************)
\* lines 121-124: 32 bits, or 64 when the DSDT's revision is at least 2
IntWidthOffByOne(revision) == IF revision > 2 THEN 64 ELSE 32

IntWidth(revision) == IF revision >= 2 THEN 64 ELSE 32

\* line 117: &Error{message: err.Module + ": " + err.Error()}
WrapParseError(err) == << err.Module \o ": " \o err.Message >>

\* line 116: uint8(tableHandle+1)
TableHandleZeroBased(index) == index % 256

TableHandle(index) == (index + 1) % 256

\* one call made by Init: the callee, the table, the handle, the parser's error
CallRec(op, name, handle, err) ==
    [op |-> op, name |-> name, handle |-> handle, err |-> err]

(***************************************************************************)
(* vmConvert, as far as checkEntities uses it: the conversion of a size    *)
(* operand to an Integer.  An Integer converts to itself; the conversion   *)
(* of an empty String is rejected.                                         *)
(***************************************************************************)
vmConvert(c, arg, toType) ==
    CASE toType = "Integer" /\ arg.typ = "Integer" -> [val |-> arg.int, err |-> Nil]
      [] toType = "Integer" /\ arg.typ = "String" /\ arg.str = "" ->
            [val |-> 0, err |-> << errConversionFromEmptyString >>]

(***************************************************************************)
(* checkEntities: the visitor (lines 157-199).  st is the state the        *)
(* closure captures: err, and the history of what the visitor did.         *)
(* The result is the state after the call, the entity as the call leaves   *)
(* it, and the visitor's return value (descend).                           *)
(***************************************************************************)
Zeroes(n) == [i \in 1..n |-> 0]

\* lines 189-195: allocate when there is no payload, pad when it is short
allocAndPadNoPad(buf, sizeAsInt) ==
    IF ~buf.hasData THEN [buf EXCEPT !.hasData = TRUE, !.data = Zeroes(sizeAsInt)]
    ELSE buf

allocAndPadBySize(buf, sizeAsInt) ==
    LET alloc == IF ~buf.hasData
                 THEN [buf EXCEPT !.hasData = TRUE, !.data = Zeroes(sizeAsInt)]
                 ELSE buf
    IN IF Len(alloc.data) <= sizeAsInt
       THEN [alloc EXCEPT !.data = @ \o Zeroes(sizeAsInt)]
       ELSE alloc

allocAndPad(buf, sizeAsInt) ==
    LET alloc == IF ~buf.hasData
                 THEN [buf EXCEPT !.hasData = TRUE, !.data = Zeroes(sizeAsInt)]
                 ELSE buf
    IN IF Len(alloc.data) < sizeAsInt
       THEN [alloc EXCEPT !.data = @ \o Zeroes(sizeAsInt - Len(@))]
       ELSE alloc

\* lines 164-168: peek into a named entity that wraps another entity
IsWrapper(ent) == ent.kind = "Named" /\ ent.arg # Nil

Unwrap(ent) == IF IsWrapper(ent) THEN ent.arg[1] ELSE ent

\* the entity with the (possibly wrapped) buffer replaced
Rewrap(ent, typ) == IF IsWrapper(ent) THEN [ent EXCEPT !.arg = << typ >>] ELSE typ

\* one invocation of the visitor: where, on which kind (after unwrapping),
\* whether the size was evaluated (and with which error), whether the payload changed
VisitRec(path, depth, kind, evaluated, modified, err) ==
    [path |-> path, depth |-> depth, kind |-> kind,
     evaluated |-> evaluated, modified |-> modified, err |-> err]

\* lines 159-161: stop recursing after the first detected error
StopAfterErrorNever(st) == FALSE

StopAfterError(st) == st.err # Nil

\* lines 171-174: a method is not descended into
MethodDescendAlways == TRUE

MethodDescend == FALSE

checkEntitiesVisitor(c, st, depth, ent, path) ==
    IF StopAfterError(st)
    THEN [st |-> [st EXCEPT !.log = Append(@, VisitRec(path, depth, "skipped", FALSE, FALSE, Nil))],
          ent |-> ent, descend |-> FALSE]
    ELSE LET typ == Unwrap(ent) IN
         CASE typ.kind = "Method" ->
                [st |-> [st EXCEPT !.log = Append(@, VisitRec(path, depth, "Method", FALSE, FALSE, Nil))],
                 ent |-> ent, descend |-> MethodDescend]
           [] typ.kind = "Buffer" ->
                LET size == vmConvert(c, typ.size, "Integer") IN
                IF size.err # Nil
                THEN [st |-> [err |-> size.err,
                              log |-> Append(st.log, VisitRec(path, depth, "Buffer", TRUE, FALSE, size.err))],
                      ent |-> ent, descend |-> FALSE]
                ELSE LET buf == allocAndPad(typ, size.val) IN
                     [st |-> [st EXCEPT !.log =
                                 Append(@, VisitRec(path, depth, "Buffer", TRUE, buf # typ, Nil))],
                      ent |-> Rewrap(ent, buf), descend |-> TRUE]
           [] OTHER ->
                [st |-> [st EXCEPT !.log = Append(@, VisitRec(path, depth, typ.kind, FALSE, FALSE, Nil))],
                 ent |-> ent, descend |-> TRUE]

(***************************************************************************)
(* Visit: a depth-first, parent-before-children traversal from the root    *)
(* at depth 0.  The visitor is invoked on each entity matching the filter  *)
(* and says whether the entity's children are visited.                     *)
(***************************************************************************)
EntityTypeAny == "Any"

Matches(entType, ent) == entType = EntityTypeAny \/ entType = ent.kind

\* one invocation of a visitor: (depth, entity), and what it returned
VisitCall(path, depth, ret) == [path |-> path, depth |-> depth, ret |-> ret]

\* a visitor of a caller of Visit: it returns true on the entities at the
\* paths of visitorFn.yes and false on all others
pathVisitor(visitorFn, st, depth, ent, path) ==
    [st |-> [st EXCEPT !.log = Append(@, VisitCall(path, depth, path \in visitorFn.yes))],
     ent |-> ent, descend |-> path \in visitorFn.yes]

\* the visitors: the closure of checkEntities, and those of other callers
VisitorFn(fn, yes) == [fn |-> fn, yes |-> yes]

CallVisitor(visitorFn, c, st, depth, ent, path) ==
    CASE visitorFn.fn = "checkEntities" -> checkEntitiesVisitor(c, st, depth, ent, path)
      [] visitorFn.fn = "byPath" -> pathVisitor(visitorFn, st, depth, ent, path)

RECURSIVE scopeVisit(_, _, _, _, _, _, _)
RECURSIVE scopeVisitChildren(_, _, _, _, _, _, _, _)

scopeVisit(c, st, depth, ent, path, entType, visitorFn) ==
    LET r == IF Matches(entType, ent)
             THEN CallVisitor(visitorFn, c, st, depth, ent, path)
             ELSE [st |-> st, ent |-> ent, descend |-> TRUE]
    IN IF ~r.descend
       THEN [st |-> r.st, ent |-> r.ent]
       ELSE scopeVisitChildren(c, r.st, depth + 1, r.ent, path, 1, entType, visitorFn)

scopeVisitChildren(c, st, depth, parent, path, i, entType, visitorFn) ==
    IF i > Len(parent.children)
    THEN [st |-> st, ent |-> parent]
    ELSE LET r == scopeVisit(c, st, depth, parent.children[i], Append(path, i),
                             entType, visitorFn)
         IN scopeVisitChildren(c, r.st, depth, [parent EXCEPT !.children[i] = r.ent],
                               path, i + 1, entType, visitorFn)

\* VM.Visit: scopeVisit(0, vm.rootNS, entType, visitorFn)
VisitFromDepthOne(c, st, root, entType, visitorFn) ==
    scopeVisit(c, st, 1, root, <<>>, entType, visitorFn)

Visit(c, st, root, entType, visitorFn) == scopeVisit(c, st, 0, root, <<>>, entType, visitorFn)

\* VM.checkEntities: the namespace after the pass, the error and the history
checkEntities(root, width) ==
    LET c == [vm |-> [sizeOfIntInBits |-> width]]
        r == Visit(c, [err |-> Nil, log |-> <<>>], root, EntityTypeAny,
                   VisitorFn("checkEntities", {}))
    IN [ns |-> r.ent, err |-> r.st.err, log |-> r.st.log]

(***************************************************************************)
(* NewVM and Init.                                                         *)
(***************************************************************************)
\* an execContext as checkEntities and the callers of execBlock create it
maxLocalArgs == 8

maxMethodArgs == 7

ExecContext(ctrlFlow, retVal) ==
    [localArg |-> [i \in 1..maxLocalArgs |-> Nil],
     methodArg |-> [i \in 1..maxMethodArgs |-> Nil],
     ctrlFlow |-> ctrlFlow, retVal |-> retVal]

ExecIdle ==
    /\ xpc = "idle"
    /\ instrList = <<>>
    /\ instrIndex = 0
    /\ ctx = ExecContext(ctrlFlowTypeNextOpcode, Nil)
    /\ ctx0 = ExecContext(ctrlFlowTypeNextOpcode, Nil)
    /\ execErr = Nil
    /\ executed = <<>>

LookupIdle ==
    /\ lookupPath = <<>>
    /\ lookupResult = [returned |-> FALSE, ent |-> Nil]

VisitIdle ==
    /\ vpc = "idle"
    /\ visitor = VisitorFn("none", {})
    /\ visitCalls = <<>>

NestIdle ==
    /\ npc = "idle"
    /\ frames = <<>>
    /\ nctx = ExecContext(ctrlFlowTypeNextOpcode, Nil)
    /\ nerr = Nil
    /\ ntrace = <<>>

RunsIdle == runs = <<>>

OtherIdle == VisitIdle /\ NestIdle /\ RunsIdle

\* NewVM: the default scopes, the caller's resolver, nothing loaded yet
NewVM ==
    /\ pc = "tables"
    /\ tableIndex = 0
    /\ resolver \in Resolvers
    /\ rootNS = defaultACPIScopes
    /\ sizeOfIntInBits = 0
    /\ jumpTableBuilt = FALSE
    /\ initErr = Nil
    /\ calls = <<>>
    /\ visitLog = <<>>
    /\ nsBefore = defaultACPIScopes

InTableLoop == pc = "tables" /\ tableIndex < Len(TableNames)

TableName == TableNames[tableIndex + 1]

\* the loop's next iteration, or the statements after the loop
NextTable ==
    /\ tableIndex' = tableIndex + 1
    /\ pc' = IF tableIndex + 1 < Len(TableNames) THEN "tables" ELSE "populate"

\* lines 112-115: the resolver has no such table: continue
TableAbsentFails ==
    /\ InTableLoop
    /\ resolver[TableName] = Nil
    /\ calls' = Append(calls, CallRec("LookupTable", TableName, 0, Nil))
    /\ initErr' = << "table not found" >>
    /\ pc' = "done"
    /\ UNCHANGED <<tableIndex, resolver, rootNS, sizeOfIntInBits, jumpTableBuilt,
                   visitLog, nsBefore>>

TableAbsent ==
    /\ InTableLoop
    /\ resolver[TableName] = Nil
    /\ calls' = Append(calls, CallRec("LookupTable", TableName, 0, Nil))
    /\ NextTable
    /\ UNCHANGED <<resolver, rootNS, sizeOfIntInBits, jumpTableBuilt, initErr,
                   visitLog, nsBefore>>

\* lines 116-118: the parser reports an error: Init returns it, wrapped
TableParseFailedGoesOn ==
    /\ InTableLoop
    /\ resolver[TableName] # Nil
    /\ \E err \in ParseErrors :
          /\ calls' = calls \o << CallRec("LookupTable", TableName, 0, Nil),
                                  CallRec("ParseAML", TableName, TableHandle(tableIndex), <<err>>) >>
          /\ initErr' = WrapParseError(err)
    /\ NextTable
    /\ UNCHANGED <<resolver, rootNS, sizeOfIntInBits, jumpTableBuilt, visitLog, nsBefore>>

TableParseFailed ==
    /\ InTableLoop
    /\ resolver[TableName] # Nil
    /\ \E err \in ParseErrors :
          /\ calls' = calls \o << CallRec("LookupTable", TableName, 0, Nil),
                                  CallRec("ParseAML", TableName, TableHandle(tableIndex), <<err>>) >>
          /\ initErr' = WrapParseError(err)
    /\ pc' = "done"
    /\ UNCHANGED <<tableIndex, resolver, rootNS, sizeOfIntInBits, jumpTableBuilt,
                   visitLog, nsBefore>>

\* lines 116-125: the parser adds the table's entities; the DSDT fixes the width
TableParsedAnyTable ==
    /\ InTableLoop
    /\ resolver[TableName] # Nil
    /\ \E content \in TableContents(TableName) :
          rootNS' = AppendAll(rootNS, content)
    /\ calls' = calls \o << CallRec("LookupTable", TableName, 0, Nil),
                            CallRec("ParseAML", TableName, TableHandle(tableIndex), Nil) >>
    /\ sizeOfIntInBits' = IntWidth(resolver[TableName][1].Revision)
    /\ NextTable
    /\ UNCHANGED <<resolver, jumpTableBuilt, initErr, visitLog, nsBefore>>

TableParsed ==
    /\ InTableLoop
    /\ resolver[TableName] # Nil
    /\ \E content \in TableContents(TableName) :
          rootNS' = AppendAll(rootNS, content)
    /\ calls' = calls \o << CallRec("LookupTable", TableName, 0, Nil),
                            CallRec("ParseAML", TableName, TableHandle(tableIndex), Nil) >>
    /\ sizeOfIntInBits' = IF TableName = "DSDT"
                          THEN IntWidth(resolver[TableName][1].Revision)
                          ELSE sizeOfIntInBits
    /\ NextTable
    /\ UNCHANGED <<resolver, jumpTableBuilt, initErr, visitLog, nsBefore>>

\* line 128: vm.populateJumpTable()
PopulateJumpTable ==
    /\ pc = "populate"
    /\ jumpTableBuilt' = TRUE
    /\ calls' = Append(calls, CallRec("populateJumpTable", "", 0, Nil))
    /\ pc' = "check"
    /\ UNCHANGED <<tableIndex, resolver, rootNS, sizeOfIntInBits, initErr, visitLog, nsBefore>>

\* line 129: return vm.checkEntities()
CheckEntities ==
    /\ pc = "check"
    /\ LET r == checkEntities(rootNS, sizeOfIntInBits) IN
          /\ rootNS' = r.ns
          /\ initErr' = r.err
          /\ visitLog' = r.log
    /\ nsBefore' = rootNS
    /\ calls' = Append(calls, CallRec("checkEntities", "", 0, Nil))
    /\ pc' = "done"
    /\ UNCHANGED <<tableIndex, resolver, sizeOfIntInBits, jumpTableBuilt>>

Init == NewVM /\ ExecIdle /\ LookupIdle /\ OtherIdle

Next ==
    \/ TableAbsent /\ UNCHANGED <<execVars, lookupVars, otherVars>>
    \/ TableParseFailed /\ UNCHANGED <<execVars, lookupVars, otherVars>>
    \/ TableParsed /\ UNCHANGED <<execVars, lookupVars, otherVars>>
    \/ PopulateJumpTable /\ UNCHANGED <<execVars, lookupVars, otherVars>>
    \/ CheckEntities /\ UNCHANGED <<execVars, lookupVars, otherVars>>

Spec == Init /\ [][Next]_vars

(***************************************************************************)
(* Properties of Init (checked under Spec).                                *)
(***************************************************************************)
Max(a, b) == IF a >= b THEN a ELSE b

LastCall == calls[Len(calls)]

InitReturned == pc = "done"

\* Init returned because ParseAML reported an error
ParseFailed == InitReturned /\ calls # <<>> /\ LastCall.err # Nil

\* Init returned what checkEntities returned
PassRan == InitReturned /\ calls # <<>> /\ LastCall.op = "checkEntities"

WasCalled(op, name) == \E i \in 1..Len(calls) : calls[i].op = op /\ calls[i].name = name

\* the entity at a path of child indices below root
RECURSIVE EntAt(_, _)
EntAt(root, path) ==
    IF path = <<>> THEN root ELSE EntAt(root.children[Head(path)], Tail(path))

\* the payload bytes of a buffer: none when the data slice is nil
Payload(buf) == IF buf.hasData THEN buf.data ELSE <<>>

\* C3: after an Init that returns without error the integer width is 32 or 64
C3_WidthIs32Or64 ==
    (InitReturned /\ initErr = Nil) => sizeOfIntInBits \in {32, 64}

\* C4: once the DSDT was found and parsed, the integer width is 64 if its
\* revision is 2 or greater and 32 if its revision is 0 or 1
C4_WidthFromRevision ==
    (tableIndex >= 1 /\ resolver["DSDT"] # Nil) =>
        LET revision == resolver["DSDT"][1].Revision IN
           /\ (revision >= 2 => sizeOfIntInBits = 64)
           /\ (revision \in {0, 1} => sizeOfIntInBits = 32)

C4_Witness ==
    /\ InitReturned
    /\ initErr = Nil
    /\ resolver["DSDT"] = << [Revision |-> 2] >>
    /\ sizeOfIntInBits = 64

\* C5: a table the resolver does not supply is never handed to the parser and
\* is no error: Init goes on to the remaining table, and unless a parse fails
\* it builds the dispatch table and runs the static-initialization pass; with
\* the SSDT absent an error of Init is the DSDT's parse error or the pass's
C5_AbsentTableSkipped ==
    /\ \A n \in {"DSDT", "SSDT"} : resolver[n] = Nil => ~WasCalled("ParseAML", n)
    /\ (InitReturned /\ resolver["DSDT"] = Nil) => WasCalled("LookupTable", "SSDT")
    /\ (InitReturned /\ ~ParseFailed) =>
          /\ jumpTableBuilt
          /\ PassRan
          /\ WasCalled("populateJumpTable", "")
    /\ (InitReturned /\ resolver["SSDT"] = Nil /\ initErr # Nil) =>
          \/ ParseFailed /\ LastCall.name = "DSDT"
          \/ PassRan /\ \E i \in 1..Len(visitLog) : visitLog[i].err = initErr

C5_Witness ==
    /\ InitReturned
    /\ resolver["DSDT"] # Nil
    /\ resolver["SSDT"] = Nil
    /\ initErr = Nil
    /\ jumpTableBuilt
    /\ PassRan
    /\ Len(rootNS.children) = 6

\* the namespace holds the default scopes and what the parser added, untouched
AsParsed == \E content \in DSDTContents : rootNS = AppendAll(defaultACPIScopes, content)

\* C6: when ParseAML reports an error Init returns at once the error
\* "<module>: <message>"; nothing is looked up or parsed after it, the dispatch
\* table is not built and the static-initialization pass does not run
C6_ParseFailureAborts ==
    \A i \in 1..Len(calls) :
        calls[i].err # Nil =>
            /\ i = Len(calls)
            /\ InitReturned
            /\ initErr = << calls[i].err[1].Module \o ": " \o calls[i].err[1].Message >>
            /\ ~jumpTableBuilt
            /\ visitLog = <<>>
            /\ AsParsed

C6_Witness ==
    /\ ParseFailed
    /\ LastCall.name = "DSDT"
    /\ resolver["SSDT"] # Nil
    /\ initErr = << "acpi_aml_parser: could not parse AML bytecode" >>
    /\ ~WasCalled("LookupTable", "SSDT")

\* what C7 says of one buffer: before and after the pass
BufferPadded(before, after) ==
    LET s == before.size.int
        L == Len(Payload(before))
    IN /\ Len(Payload(after)) = Max(s, L)
       /\ SubSeq(Payload(after), 1, L) = Payload(before)
       /\ L < s => \A i \in (L + 1)..s : Payload(after)[i] = 0
       /\ L >= s => Payload(after) = Payload(before)

\* BufferPadded for the buffers of a tree: all of them, or only those that
\* are not inside a method body
RECURSIVE BuffersPadded(_, _, _)
BuffersPadded(before, after, intoMethods) ==
    /\ before.kind = "Buffer" => BufferPadded(before, after)
    /\ before.arg # Nil => BuffersPadded(before.arg[1], after.arg[1], intoMethods)
    /\ (before.kind # "Method" \/ intoMethods) =>
          \A i \in 1..Len(before.children) :
              BuffersPadded(before.children[i], after.children[i], intoMethods)

\* C7, as claimed: after a pass without error every buffer of the namespace
\* has length max(s, L), its initial bytes, and zeroes in [L, s)
C7_EveryBufferPadded ==
    (PassRan /\ initErr = Nil) => BuffersPadded(nsBefore, rootNS, TRUE)

\* C7, amended: after a pass without error every buffer of the namespace that
\* is not inside a method body has length max(s, L), its initial bytes
\* unchanged, zeroes in [L, s) when L < s, and the same bytes when L >= s
C7_BuffersOutsideMethodsPadded ==
    (PassRan /\ initErr = Nil) => BuffersPadded(nsBefore, rootNS, FALSE)

C7_Witness ==
    /\ PassRan
    /\ initErr = Nil
    /\ Len(nsBefore.children) = 6
    /\ nsBefore.children[6] = BufferEnt(IntOperand(2), TRUE, << InitByte(1) >>)
    /\ rootNS.children[6] = BufferEnt(IntOperand(2), TRUE, << InitByte(1), 0 >>)

\* the bodies of the methods of a tree (also of wrapped methods) are the same
RECURSIVE MethodBodiesSame(_, _)
MethodBodiesSame(before, after) ==
    /\ before.kind = "Method" => after.children = before.children
    /\ before.arg # Nil => MethodBodiesSame(before.arg[1], after.arg[1])
    /\ \A i \in 1..Len(before.children) :
          MethodBodiesSame(before.children[i], after.children[i])

\* no entity strictly above the path is a method or wraps one
OutsideMethods(root, path) ==
    \A n \in 0..(Len(path) - 1) : Unwrap(EntAt(root, SubSeq(path, 1, n))).kind # "Method"

\* C8: the pass never descends into a method, visited directly or as the
\* payload of a named entity: the visitor is invoked on no entity inside a
\* method body, and every method body is after the pass what it was before
C8_MethodsNotEntered ==
    PassRan =>
        /\ \A i \in 1..Len(visitLog) : OutsideMethods(nsBefore, visitLog[i].path)
        /\ MethodBodiesSame(nsBefore, rootNS)

C8_Witness ==
    /\ PassRan
    /\ initErr = Nil
    /\ Len(rootNS.children) = 6
    /\ rootNS.children[6] =
          ScopeEnt(Name("S", "C", "P", "1"),
                   << MethodEnt(Name("M", "T", "H", "2"), << BufferEnt(IntOperand(2), FALSE, <<>>) >>),
                      NamedEnt(Name("B", "U", "F", "2"), << BufferEnt(IntOperand(2), TRUE, Zeroes(2)) >>) >>)
    /\ \E i \in 1..Len(visitLog) : visitLog[i].kind = "Method" /\ visitLog[i].path = <<6, 1>>

\* C9: when the evaluation of a buffer's size fails, the pass and Init return
\* the error of the first such failure in traversal order, the failing
\* buffer is left as it was, and no entity the traversal reaches later has
\* its size evaluated or is modified
C9_FirstSizeErrorAborts ==
    PassRan =>
        \A i \in 1..Len(visitLog) :
            visitLog[i].err # Nil =>
                /\ initErr = visitLog[i].err
                /\ \A j \in 1..(i - 1) : visitLog[j].err = Nil
                /\ EntAt(rootNS, visitLog[i].path) = EntAt(nsBefore, visitLog[i].path)
                /\ \A j \in (i + 1)..Len(visitLog) :
                      /\ ~visitLog[j].evaluated
                      /\ ~visitLog[j].modified
                      /\ EntAt(rootNS, visitLog[j].path) = EntAt(nsBefore, visitLog[j].path)

C9_Witness ==
    /\ PassRan
    /\ initErr = << errConversionFromEmptyString >>
    /\ Len(rootNS.children) = 7
    /\ rootNS.children[6].kind = "Buffer"
    /\ rootNS.children[6].size = StrOperand("")
    /\ rootNS.children[7] = BufferEnt(IntOperand(1), FALSE, <<>>)

\* the positions in calls of the calls of op
CallsOf(op) == {i \in 1..Len(calls) : calls[i].op = op}

\* C13: Init asks for DSDT then SSDT, gives the parser handle 1 for DSDT and
\* 2 for SSDT, builds the dispatch table only after both tables were looked
\* up (and parsed or skipped), and runs the static pass right after the
\* dispatch table was built, never before
C13_TablesThenJumpTableThenPass ==
    /\ \A i \in CallsOf("LookupTable") :
          calls[i].name = TableNames[Cardinality({j \in CallsOf("LookupTable") : j < i}) + 1]
    /\ Cardinality(CallsOf("LookupTable")) <= 2
    /\ \A i \in CallsOf("ParseAML") :
          /\ calls[i - 1] = CallRec("LookupTable", calls[i].name, 0, Nil)
          /\ calls[i].name = "DSDT" => calls[i].handle = 1
          /\ calls[i].name = "SSDT" => calls[i].handle = 2
    /\ \A i \in CallsOf("populateJumpTable") :
          /\ \A name \in {"DSDT", "SSDT"} :
                \E j \in 1..(i - 1) :
                    /\ calls[j] = CallRec("LookupTable", name, 0, Nil)
                    /\ resolver[name] # Nil =>
                          calls[j + 1].op = "ParseAML" /\ calls[j + 1].err = Nil /\ j + 1 < i
          /\ \A j \in CallsOf("LookupTable") \cup CallsOf("ParseAML") : j < i
    /\ \A i \in CallsOf("checkEntities") :
          /\ jumpTableBuilt
          /\ i > 1
          /\ calls[i - 1].op = "populateJumpTable"
    /\ jumpTableBuilt <=> CallsOf("populateJumpTable") # {}

C13_Witness ==
    /\ PassRan
    /\ Len(calls) = 6
    /\ calls[2] = CallRec("ParseAML", "DSDT", 1, Nil)
    /\ calls[4] = CallRec("ParseAML", "SSDT", 2, Nil)
    /\ calls[5].op = "populateJumpTable"

(***************************************************************************)
(* A VM whose Init has returned without error: the DSDT (revision 2)       *)
(* declared `content`, there is no SSDT.                                   *)
(***************************************************************************)
VMReady(content) ==
    LET parsed == AppendAll(defaultACPIScopes, content)
        r == checkEntities(parsed, IntWidth(2))
    IN /\ pc = "done"
       /\ tableIndex = Len(TableNames)
       /\ resolver = [n \in {"DSDT", "SSDT"} |->
                         IF n = "DSDT" THEN << [Revision |-> 2] >> ELSE Nil]
       /\ rootNS = r.ns
       /\ sizeOfIntInBits = IntWidth(2)
       /\ jumpTableBuilt = TRUE
       /\ initErr = Nil
       /\ calls = << CallRec("LookupTable", "DSDT", 0, Nil),
                     CallRec("ParseAML", "DSDT", TableHandle(0), Nil),
                     CallRec("LookupTable", "SSDT", 0, Nil),
                     CallRec("populateJumpTable", "", 0, Nil),
                     CallRec("checkEntities", "", 0, Nil) >>
       /\ visitLog = r.log
       /\ nsBefore = parsed

(***************************************************************************)
(* execBlock (lines 216-228).  The handlers of the dispatch table are      *)
(* inputs: a handler may write the control-flow signal and the carried     *)
(* value of the context it is given, and returns nil or an error.          *)
(***************************************************************************)
errArgIndexOutOfBounds == "vm: arg index out of bounds"

errDivideByZero == "vm: division by zero"

Opcodes == 1..MaxOpcode

\* the instruction lists of the blocks given to execBlock
Blocks == UNION {[1..n -> Opcodes] : n \in 0..MaxInstr}

\* the values a handler may leave in ctx.retVal
RetVals == {Nil, << 42 >>}

\* what a handler may return
HandlerResults == {Nil, << errArgIndexOutOfBounds >>, << errDivideByZero >>}

ExecRec(index, op, flowBefore, flowAfter, err) ==
    [index |-> index, op |-> op, flowBefore |-> flowBefore,
     flowAfter |-> flowAfter, err |-> err]

\* the caller enters execBlock with a block and a context
ExecBlockEnter ==
    /\ xpc = "idle"
    /\ \E block \in Blocks, flow \in CtrlFlowTypes, ret \in RetVals :
          /\ instrList' = block
          /\ ctx' = ExecContext(flow, ret)
          /\ ctx0' = ExecContext(flow, ret)
    /\ instrIndex' = 0
    /\ xpc' = "loop"
    /\ UNCHANGED <<execErr, executed>>

\* line 220: instrIndex < numInstr && ctx.ctrlFlow == ctrlFlowTypeNextOpcode
LoopCondIgnoresCtrlFlow == instrIndex < Len(instrList)

LoopCond == instrIndex < Len(instrList) /\ ctx.ctrlFlow = ctrlFlowTypeNextOpcode

\* lines 222-224 and the loop's increment: return the handler's error, or go on
OnHandlerResultSwallow(err) ==
    /\ instrIndex' = instrIndex + 1
    /\ UNCHANGED <<execErr, xpc>>

OnHandlerResult(err) ==
    IF err # Nil
    THEN /\ execErr' = err
         /\ xpc' = "done"
         /\ UNCHANGED instrIndex
    ELSE /\ instrIndex' = instrIndex + 1
         /\ UNCHANGED <<execErr, xpc>>

\* lines 221-224: one iteration: the instruction's handler runs on ctx
ExecInstr ==
    /\ xpc = "loop"
    /\ LoopCond
    /\ \E flow \in CtrlFlowTypes, ret \in RetVals, err \in HandlerResults :
          /\ ctx' = [ctx EXCEPT !.ctrlFlow = flow, !.retVal = ret]
          /\ executed' = Append(executed,
                                ExecRec(instrIndex, instrList[instrIndex + 1],
                                        ctx.ctrlFlow, flow, err))
          /\ OnHandlerResult(err)
    /\ UNCHANGED <<instrList, ctx0>>

\* line 227: the loop has ended: return nil
ExecReturnResetsSignal ==
    /\ xpc = "loop"
    /\ ~LoopCond
    /\ execErr' = Nil
    /\ xpc' = "done"
    /\ ctx' = [ctx EXCEPT !.ctrlFlow = ctrlFlowTypeNextOpcode]
    /\ UNCHANGED <<instrList, instrIndex, ctx0, executed>>

ExecReturn ==
    /\ xpc = "loop"
    /\ ~LoopCond
    /\ execErr' = Nil
    /\ xpc' = "done"
    /\ UNCHANGED <<instrList, instrIndex, ctx, ctx0, executed>>

InitExec == VMReady(<<>>) /\ ExecIdle /\ LookupIdle /\ OtherIdle

NextExec ==
    \/ ExecBlockEnter /\ UNCHANGED <<vmVars, lookupVars, otherVars>>
    \/ ExecInstr /\ UNCHANGED <<vmVars, lookupVars, otherVars>>
    \/ ExecReturn /\ UNCHANGED <<vmVars, lookupVars, otherVars>>

SpecExec == InitExec /\ [][NextExec]_vars

(***************************************************************************)
(* Properties of execBlock (checked under SpecExec).                       *)
(***************************************************************************)
ExecReturned == xpc = "done"

LastExecuted == executed[Len(executed)]

\* the handler invocations are instrList[0], instrList[1], ... in order, each
\* entered with the signal at NextOpcode, and none follows an invocation that
\* left the signal at Break, Continue or FnReturn
InListOrderWhileNextOpcode ==
    \A i \in 1..Len(executed) :
        /\ executed[i].index = i - 1
        /\ executed[i].op = instrList[i]
        /\ executed[i].flowBefore = ctrlFlowTypeNextOpcode
        /\ executed[i].flowAfter # ctrlFlowTypeNextOpcode => i = Len(executed)

\* C1, as claimed: execBlock runs the block's instructions in list order, one
\* at a time, only while the signal is NextOpcode; once a handler leaves the
\* signal at Break, Continue or FnReturn no later instruction runs and
\* execBlock returns without error
C1_SignalReturnsNoError ==
    /\ InListOrderWhileNextOpcode
    /\ (ExecReturned /\ executed # <<>>
          /\ LastExecuted.flowAfter # ctrlFlowTypeNextOpcode) => execErr = Nil

\* C1, amended: as claimed, but execBlock returns without error only if the
\* handler that left the signal at Break, Continue or FnReturn reported no
\* error itself (its error is returned otherwise); and with the signal still
\* NextOpcode and no error the whole list has run
C1_StopsOnSignal ==
    /\ InListOrderWhileNextOpcode
    /\ (ExecReturned /\ executed # <<>> /\ LastExecuted.err = Nil
          /\ LastExecuted.flowAfter # ctrlFlowTypeNextOpcode) => execErr = Nil
    /\ (ExecReturned /\ executed # <<>> /\ LastExecuted.err # Nil
          /\ LastExecuted.flowAfter # ctrlFlowTypeNextOpcode) => execErr = LastExecuted.err
    /\ (ExecReturned /\ execErr = Nil /\ ctx.ctrlFlow = ctrlFlowTypeNextOpcode) =>
          Len(executed) = Len(instrList)

C1_Witness ==
    /\ ExecReturned
    /\ Len(instrList) = 3
    /\ Len(executed) = 2
    /\ executed[1].flowAfter = ctrlFlowTypeNextOpcode
    /\ executed[2].flowAfter = ctrlFlowTypeBreak
    /\ ctx.ctrlFlow = ctrlFlowTypeBreak
    /\ execErr = Nil

\* C2: when a handler reports an error execBlock returns that very error at
\* once: the failing invocation is the last one, no instruction is invoked
\* twice, and execBlock returns an error only if the last handler reported it
C2_ErrorPropagates ==
    /\ \A i \in 1..Len(executed) :
          /\ executed[i].index = i - 1
          /\ executed[i].err # Nil =>
                /\ i = Len(executed)
                /\ ExecReturned
                /\ execErr = executed[i].err
    /\ (ExecReturned /\ execErr # Nil) =>
          /\ executed # <<>>
          /\ LastExecuted.err = execErr

C2_Witness ==
    /\ ExecReturned
    /\ Len(instrList) = 3
    /\ Len(executed) = 2
    /\ executed[1].err = Nil
    /\ executed[2].err = << errDivideByZero >>
    /\ execErr = << errDivideByZero >>

\* C17: execBlock on an empty block, or entered with the signal already at
\* Break, Continue or FnReturn, invokes no handler, returns no error and
\* leaves the context as it was on entry
C17_NothingToRun ==
    (xpc # "idle" /\ (instrList = <<>> \/ ctx0.ctrlFlow # ctrlFlowTypeNextOpcode)) =>
        /\ executed = <<>>
        /\ ctx = ctx0
        /\ execErr = Nil
        /\ ~ENABLED ExecInstr

C17_Witness ==
    /\ ExecReturned
    /\ Len(instrList) = 2
    /\ ctx0 = ExecContext(ctrlFlowTypeContinue, << 42 >>)
    /\ ctx = ctx0
    /\ executed = <<>>
    /\ execErr = Nil

(***************************************************************************)
(* Lookup (lines 135-146).  A path is a sequence of characters.            *)
(***************************************************************************)
\* the width of a name segment of a path
SegWidth == 4

RootChar == "\\"

\* scopeFindRelative: the path is matched against the names of the children
\* of ns one segment at a time, top-down; Nil when a segment matches nothing
RECURSIVE scopeFindRelative(_, _)
scopeFindRelative(ns, path) ==
    IF Len(path) < SegWidth
    THEN Nil
    ELSE LET seg == SubSeq(path, 1, SegWidth)
             rest == SubSeq(path, SegWidth + 1, Len(path))
             found == {i \in 1..Len(ns.children) : ns.children[i].name = seg}
         IN IF found = {}
            THEN Nil
            ELSE LET child == ns.children[CHOOSE i \in found : \A j \in found : i <= j]
                 IN IF rest = <<>> THEN << child >> ELSE scopeFindRelative(child, rest)

\* what a call of Lookup gives: whether it returned, and the Entity it
\* returned (Nil or <<entity>>)
LookupRec(returned, ent) == [returned |-> returned, ent |-> ent]

\* VM.Lookup
LookupNoRootCase(root, absPath) ==
    IF absPath = <<>> \/ absPath[1] # RootChar
    THEN LookupRec(TRUE, Nil)
    ELSE LookupRec(TRUE, scopeFindRelative(root, Tail(absPath)))

Lookup(root, absPath) ==
    IF absPath = <<>> \/ absPath[1] # RootChar
    THEN LookupRec(TRUE, Nil)
    ELSE IF Len(absPath) = 1
         THEN LookupRec(TRUE, << root >>)
         ELSE LookupRec(TRUE, scopeFindRelative(root, Tail(absPath)))

\* the name segments tried: names of the namespace, and one that is unknown
Segments ==
    {Name("_", "S", "B", "_"), Name("_", "T", "Z", "_"), Name("S", "C", "P", "0"),
     Name("B", "U", "F", "1"), Name("X", "X", "X", "X")}

RECURSIVE Flatten(_)
Flatten(segs) == IF segs = <<>> THEN <<>> ELSE Head(segs) \o Flatten(Tail(segs))

\* the paths given to Lookup: the empty path, the root, and absolute,
\* relative, doubly rooted and truncated paths of up to MaxSegs segments
LookupPaths ==
    {<<>>, << RootChar >>}
    \cup {prefix \o Flatten(segs) \o suffix :
             prefix \in {<<>>, << RootChar >>, << RootChar, RootChar >>},
             segs \in UNION {[1..n -> Segments] : n \in 1..MaxSegs},
             suffix \in {<<>>, << "_" >>}}

\* the namespaces Lookup is tried on: the default scopes, alone or with a
\* scope declared by the DSDT
LookupContents ==
    {<<>>,
     << ScopeEnt(Name("S", "C", "P", "0"),
                 << NamedEnt(Name("B", "U", "F", "1"),
                             << BufferEnt(IntOperand(1), FALSE, <<>>) >>),
                    ScopeEnt(Name("_", "S", "B", "_"), <<>>) >>) >>}

DoLookup ==
    /\ \E absPath \in LookupPaths :
          /\ lookupPath' = absPath
          /\ lookupResult' = Lookup(rootNS, absPath)

InitLookup ==
    /\ \E content \in LookupContents : VMReady(content)
    /\ ExecIdle
    /\ OtherIdle
    /\ lookupPath = <<>>
    /\ lookupResult = LookupRec(FALSE, Nil)

NextLookup == DoLookup /\ UNCHANGED <<vmVars, execVars, otherVars>>

SpecLookup == InitLookup /\ [][NextLookup]_vars

(***************************************************************************)
(* Properties of Lookup (checked under SpecLookup).                        *)
(***************************************************************************)
\* the names of the entities of a tree
RECURSIVE NamesIn(_)
NamesIn(ent) ==
    {ent.name} \cup UNION {NamesIn(ent.children[i]) : i \in 1..Len(ent.children)}

\* the segments of a path without its first character; a shorter rest at
\* the end of the path is a segment too
PathSegments(absPath) ==
    LET rel == Tail(absPath) IN
    {SubSeq(rel, k * SegWidth + 1, IF (k + 1) * SegWidth <= Len(rel)
                                   THEN (k + 1) * SegWidth ELSE Len(rel))
        : k \in 0..((Len(rel) - 1) \div SegWidth)}

\* C10: Lookup returns the root for the path "\", nil for the empty path and
\* for a path that does not start with "\", and otherwise the relative
\* resolution from the root of the path without its first character, which is
\* nil when a segment of the path names no entity; it returns an entity or
\* nil and nothing else
C10_Lookup ==
    lookupResult.returned =>
        /\ lookupResult.ent = Nil \/ Len(lookupResult.ent) = 1
        /\ lookupPath = << RootChar >> => lookupResult.ent = << rootNS >>
        /\ (lookupPath = <<>> \/ Head(lookupPath) # RootChar) => lookupResult.ent = Nil
        /\ (Len(lookupPath) > 1 /\ Head(lookupPath) = RootChar) =>
              /\ lookupResult.ent = scopeFindRelative(rootNS, Tail(lookupPath))
              /\ (\E seg \in PathSegments(lookupPath) : seg \notin NamesIn(rootNS)) =>
                    lookupResult.ent = Nil

C10_Witness ==
    /\ lookupResult.returned
    /\ lookupPath = << RootChar >> \o Name("S", "C", "P", "0") \o Name("B", "U", "F", "1")
    /\ lookupResult.ent # Nil
    /\ lookupResult.ent[1].kind = "Named"
    /\ lookupResult.ent[1].name = Name("B", "U", "F", "1")

(***************************************************************************)
(* Visit (lines 208-210) with the wildcard filter, as a caller other than  *)
(* checkEntities uses it.                                                  *)
(***************************************************************************)
\* the paths of the entities of a tree (a path: child indices from the root)
RECURSIVE PathsIn(_)
PathsIn(ent) ==
    {<<>>} \cup UNION {{<< i >> \o p : p \in PathsIn(ent.children[i])}
                         : i \in 1..Len(ent.children)}

\* the namespaces Visit is tried on: the default scopes, alone or with
\* scopes nested three deep
VisitContents ==
    {<<>>,
     << ScopeEnt(Name("S", "C", "P", "0"),
                 << ScopeEnt(Name("S", "C", "P", "3"),
                             << MethodEnt(Name("M", "T", "H", "4"), <<>>) >>),
                    NamedEnt(Name("V", "A", "L", "1"), Nil) >>) >>}

\* the visitors tried: one for each set of entities to return true on
Visitors(root) == {VisitorFn("byPath", yes) : yes \in SUBSET PathsIn(root)}

DoVisit ==
    /\ vpc = "idle"
    /\ \E v \in Visitors(rootNS) :
          /\ visitor' = v
          /\ visitCalls' = Visit([vm |-> [sizeOfIntInBits |-> sizeOfIntInBits]],
                                 [err |-> Nil, log |-> <<>>], rootNS, EntityTypeAny, v).st.log
    /\ vpc' = "done"

InitVisit ==
    /\ \E content \in VisitContents : VMReady(content)
    /\ ExecIdle
    /\ LookupIdle
    /\ OtherIdle

NextVisit == DoVisit /\ UNCHANGED <<vmVars, execVars, lookupVars, nestVars, runs>>

SpecVisit == InitVisit /\ [][NextVisit]_vars

(***************************************************************************)
(* Properties of Visit (checked under SpecVisit).                          *)
(***************************************************************************)
\* the path of the parent
Parent(path) == SubSeq(path, 1, Len(path) - 1)

\* C11: with the wildcard filter the traversal starts at the root at depth 0;
\* the visitor is invoked on an entity below the root only after it was
\* invoked on the entity's parent and returned true for it, and at most once;
\* so a visitor that always returns false is invoked on the root alone
C11_ParentBeforeChildren ==
    vpc = "done" =>
        /\ visitCalls # <<>>
        /\ visitCalls[1].path = <<>>
        /\ visitCalls[1].depth = 0
        /\ \A i \in 1..Len(visitCalls) :
              /\ visitCalls[i].path \in PathsIn(rootNS)
              /\ visitCalls[i].depth = Len(visitCalls[i].path)
              /\ \A j \in 1..Len(visitCalls) :
                    visitCalls[j].path = visitCalls[i].path => j = i
              /\ visitCalls[i].path # <<>> =>
                    \E j \in 1..(i - 1) :
                        /\ visitCalls[j].path = Parent(visitCalls[i].path)
                        /\ visitCalls[j].ret
        /\ visitor.yes = {} => Len(visitCalls) = 1

C11_Witness ==
    /\ vpc = "done"
    /\ visitor.yes = {<<>>, <<6>>}
    /\ Len(rootNS.children) = 6
    /\ Len(visitCalls) = 9
    /\ visitCalls[7] = VisitCall(<<6>>, 1, TRUE)
    /\ visitCalls[8] = VisitCall(<<6, 1>>, 2, FALSE)
    /\ visitCalls[9] = VisitCall(<<6, 2>>, 2, FALSE)

(***************************************************************************)
(* The static-initialization pass run again on a VM whose Init has         *)
(* returned without error (checkEntities, lines 151-202, called a second   *)
(* time on the namespace the first call left).                             *)
(***************************************************************************)
CheckEntitiesAgain ==
    /\ PassRan
    /\ initErr = Nil
    /\ LET r == checkEntities(rootNS, sizeOfIntInBits) IN
          /\ rootNS' = r.ns
          /\ initErr' = r.err
          /\ visitLog' = r.log
    /\ nsBefore' = rootNS
    /\ calls' = Append(calls, CallRec("checkEntities", "", 0, Nil))
    /\ pc' = "repassed"
    /\ UNCHANGED <<tableIndex, resolver, sizeOfIntInBits, jumpTableBuilt>>

NextRepass ==
    \/ Next
    \/ CheckEntitiesAgain /\ UNCHANGED <<execVars, lookupVars, otherVars>>

SpecRepass == Init /\ [][NextRepass]_vars

\* C18: a second static-initialization pass after one that returned without
\* error returns without error too and changes no buffer payload: the
\* namespace after it is the namespace before it
C18_SecondPassChangesNothing ==
    pc = "repassed" =>
        /\ initErr = Nil
        /\ rootNS = nsBefore
        /\ \A i \in 1..Len(visitLog) : ~visitLog[i].modified /\ visitLog[i].err = Nil

\* the second pass evaluates the size of a buffer the first pass has padded
C18_Witness ==
    /\ pc = "repassed"
    /\ Len(rootNS.children) = 6
    /\ rootNS.children[6] = BufferEnt(IntOperand(2), TRUE, << InitByte(1), 0 >>)
    /\ visitLog[7] = VisitRec(<<6>>, 1, "Buffer", TRUE, FALSE, Nil)

(***************************************************************************)
(* The whole life of a VM: Init, and then Lookup, Visit and execBlock on   *)
(* the VM whose Init has returned without error.  The calls after Init     *)
(* are tried one kind per behaviour: they share no state but the VM.       *)
(***************************************************************************)
LookupAfterInit ==
    /\ VMReady(<<>>)
    /\ xpc = "idle"
    /\ vpc = "idle"
    /\ DoLookup

VisitAfterInit ==
    /\ VMReady(<<>>)
    /\ xpc = "idle"
    /\ ~lookupResult.returned
    /\ DoVisit

ExecBlockAfterInit ==
    /\ VMReady(<<>>)
    /\ vpc = "idle"
    /\ ~lookupResult.returned
    /\ ExecBlockEnter

NextAll ==
    \/ Next
    \/ LookupAfterInit /\ UNCHANGED <<vmVars, execVars, otherVars>>
    \/ VisitAfterInit /\ UNCHANGED <<vmVars, execVars, lookupVars, nestVars, runs>>
    \/ ExecBlockAfterInit /\ UNCHANGED <<vmVars, lookupVars, otherVars>>
    \/ ExecInstr /\ UNCHANGED <<vmVars, lookupVars, otherVars>>
    \/ ExecReturn /\ UNCHANGED <<vmVars, lookupVars, otherVars>>

SpecAll == Init /\ [][NextAll]_vars

\* C15: the integer width changes only in the step of Init that has parsed
\* the DSDT; the steps that process the SSDT, build the dispatch table or run
\* the static pass, and Lookup, Visit and execBlock leave it as it is
C15_WidthWrittenByDSDTOnly ==
    [][sizeOfIntInBits' # sizeOfIntInBits =>
          /\ InTableLoop
          /\ TableName = "DSDT"
          /\ resolver["DSDT"] # Nil
          /\ calls' = calls \o << CallRec("LookupTable", "DSDT", 0, Nil),
                                  CallRec("ParseAML", "DSDT", 1, Nil) >>
          /\ sizeOfIntInBits' = IntWidth(resolver["DSDT"][1].Revision)]_vars

\* Init has returned after an SSDT of revision 2 was parsed behind a DSDT of
\* revision 1: the width is the DSDT's
C15_Witness ==
    /\ PassRan
    /\ resolver["DSDT"] = << [Revision |-> 1] >>
    /\ resolver["SSDT"] = << [Revision |-> 2] >>
    /\ WasCalled("ParseAML", "SSDT")
    /\ jumpTableBuilt
    /\ sizeOfIntInBits = 32

(***************************************************************************)
(* execBlock on blocks that hold If and While instructions.  The handlers  *)
(* of If and While run their body with execBlock on the same context, so   *)
(* calls of execBlock nest: frames holds the active calls, innermost last. *)
(* A frame is the block of the call, its instrIndex, the handler that made *)
(* the call ("top" for the outermost caller) and, for a While, the number  *)
(* of the iteration.                                                       *)
(***************************************************************************)
Instr(op, body) == [op |-> op, body |-> body]

\* instructions without a body: Nop stands for any instruction that leaves
\* the signal alone, Fail for one whose handler reports an error
SimpleOps == {"Nop", "Break", "Continue", "Return", "Fail"}

Bodies == UNION {[1..n -> {Instr(op, <<>>) : op \in SimpleOps}] : n \in 0..MaxBody}

\* an If or a While around a body
Inner(b) == {Instr("If", b), Instr("While", b)}

\* the blocks given to the outermost execBlock: an If or a While, maybe
\* with another If or While in its body, and an instruction after it
NestedBlocks ==
    {<< i, Instr("Nop", <<>>) >> :
        i \in UNION {Inner(b) \cup UNION {Inner(<< j, Instr("Nop", <<>>) >>) : j \in Inner(b)}
                       : b \in Bodies}}

Frame(block, kind, iter) == [block |-> block, index |-> 0, kind |-> kind, iter |-> iter]

\* the handlers of the instructions without a body
simpleHandler(op, c) ==
    CASE op = "Nop" -> [ctx |-> c, err |-> Nil]
      [] op = "Break" -> [ctx |-> [c EXCEPT !.ctrlFlow = ctrlFlowTypeBreak], err |-> Nil]
      [] op = "Continue" -> [ctx |-> [c EXCEPT !.ctrlFlow = ctrlFlowTypeContinue], err |-> Nil]
      [] op = "Return" -> [ctx |-> [c EXCEPT !.ctrlFlow = ctrlFlowTypeFnReturn,
                                             !.retVal = << 42 >>], err |-> Nil]
      [] op = "Fail" -> [ctx |-> c, err |-> << errDivideByZero >>]

\* history: an instruction's handler ran ("op"), a condition was evaluated
\* ("cond"), or the handler of an If or a While returned ("end").  depth and
\* index say where the instruction is, inKind which handler runs its block,
\* res is the condition's value or why the handler returned, more whether
\* an instruction follows in the block, loops how many While bodies the
\* instruction is in, ctx the context after the event
Ev(ev, depth, index, op, inKind, res, more, loops, c) ==
    [ev |-> ev, depth |-> depth, index |-> index, op |-> op, inKind |-> inKind,
     res |-> res, more |-> more, loops |-> loops, ctx |-> c]

\* how many of the calls are made by the handler of a While
Loops(fs) == Cardinality({k \in 1..Len(fs) : fs[k].kind = "While"})

Top == frames[Len(frames)]

TopInstr == Top.block[Top.index + 1]

\* an event about the instruction the innermost call is at
EvHere(ev, res, c) ==
    Ev(ev, Len(frames), Top.index, TopInstr.op, Top.kind, res,
       Top.index + 1 < Len(Top.block), Loops(frames), c)

\* an event about the instruction whose handler made the innermost call
EvCaller(ev, res, c) ==
    LET f == frames[Len(frames) - 1] IN
    Ev(ev, Len(frames) - 1, f.index, f.block[f.index + 1].op, f.kind, res,
       f.index + 1 < Len(f.block), Loops(SubSeq(frames, 1, Len(frames) - 1)), c)

\* the loop goes on to the next instruction (the increment of line 220)
Advance(fs) == [fs EXCEPT ![Len(fs)].index = @ + 1]

\* the innermost call has returned to its handler and the handler to its loop
PopAndAdvance(fs) == Advance(SubSeq(fs, 1, Len(fs) - 1))

\* line 220, for the innermost call
NestLoopCondIgnoresCtrlFlow == Top.index < Len(Top.block)

NestLoopCond == Top.index < Len(Top.block) /\ nctx.ctrlFlow = ctrlFlowTypeNextOpcode

\* line 227: what the context is when execBlock returns nil: as the last
\* handler left it
CtxAtReturnReset(c) == [c EXCEPT !.ctrlFlow = ctrlFlowTypeNextOpcode]

CtxAtReturn(c) == c

\* the outermost caller enters execBlock
NestEnter ==
    /\ npc = "idle"
    /\ \E block \in NestedBlocks : frames' = << Frame(block, "top", 0) >>
    /\ npc' = "run"
    /\ UNCHANGED <<nctx, nerr, ntrace>>

\* lines 221-224 on an instruction without a body; an error ends every
\* active call: each execBlock returns it, and so does each handler
NestOp ==
    /\ npc = "run"
    /\ NestLoopCond
    /\ TopInstr.op \in SimpleOps
    /\ LET r == simpleHandler(TopInstr.op, nctx) IN
          /\ nctx' = r.ctx
          /\ ntrace' = Append(ntrace, EvHere("op", "", r.ctx))
          /\ IF r.err # Nil
             THEN /\ nerr' = r.err
                  /\ npc' = "done"
                  /\ frames' = <<>>
             ELSE /\ frames' = Advance(frames)
                  /\ UNCHANGED <<nerr, npc>>

\* lines 221-224 on an If: the handler runs the body when the condition holds
NestIf ==
    /\ npc = "run"
    /\ NestLoopCond
    /\ TopInstr.op = "If"
    /\ \E cond \in BOOLEAN :
          IF cond
          THEN /\ frames' = Append(frames, Frame(TopInstr.body, "If", 0))
               /\ ntrace' = Append(ntrace, EvHere("cond", "true", nctx))
          ELSE /\ frames' = Advance(frames)
               /\ ntrace' = ntrace \o << EvHere("cond", "false", nctx),
                                         EvHere("end", "false", nctx) >>
    /\ UNCHANGED <<npc, nctx, nerr>>

\* lines 221-224 on a While: the handler evaluates the condition and runs
\* the body when it holds
NestWhile ==
    /\ npc = "run"
    /\ NestLoopCond
    /\ TopInstr.op = "While"
    /\ \E cond \in BOOLEAN :
          IF cond
          THEN /\ frames' = Append(frames, Frame(TopInstr.body, "While", 1))
               /\ ntrace' = Append(ntrace, EvHere("cond", "true", nctx))
          ELSE /\ frames' = Advance(frames)
               /\ ntrace' = ntrace \o << EvHere("cond", "false", nctx),
                                         EvHere("end", "false", nctx) >>
    /\ UNCHANGED <<npc, nctx, nerr>>

\* line 227, the outermost call: execBlock returns nil
NestReturnTop ==
    /\ npc = "run"
    /\ ~NestLoopCond
    /\ Top.kind = "top"
    /\ nctx' = CtxAtReturn(nctx)
    /\ nerr' = Nil
    /\ npc' = "done"
    /\ frames' = <<>>
    /\ UNCHANGED ntrace

\* line 227, a call made by the handler of an If: the handler returns what
\* execBlock returned and leaves the signal as it is
NestReturnIf ==
    /\ npc = "run"
    /\ ~NestLoopCond
    /\ Top.kind = "If"
    /\ nctx' = CtxAtReturn(nctx)
    /\ ntrace' = Append(ntrace, EvCaller("end", "body", nctx'))
    /\ frames' = PopAndAdvance(frames)
    /\ UNCHANGED <<npc, nerr>>

\* what the handler of a While does with the signal its body left: a
\* FnReturn is kept, a Break or a Continue is consumed
whileSignal(c) ==
    IF c.ctrlFlow = ctrlFlowTypeFnReturn THEN c
    ELSE [c EXCEPT !.ctrlFlow = ctrlFlowTypeNextOpcode]

\* line 227, a call made by the handler of a While: on FnReturn or Break the
\* loop ends; otherwise the condition is evaluated again
NestReturnWhile ==
    /\ npc = "run"
    /\ ~NestLoopCond
    /\ Top.kind = "While"
    /\ LET c == CtxAtReturn(nctx) IN
          /\ nctx' = whileSignal(c)
          /\ IF c.ctrlFlow = ctrlFlowTypeFnReturn
             THEN /\ ntrace' = Append(ntrace, EvCaller("end", "return", nctx'))
                  /\ frames' = PopAndAdvance(frames)
             ELSE IF c.ctrlFlow = ctrlFlowTypeBreak
             THEN /\ ntrace' = Append(ntrace, EvCaller("end", "break", nctx'))
                  /\ frames' = PopAndAdvance(frames)
             ELSE \E cond \in {b \in BOOLEAN : b => Top.iter < MaxIter} :
                     IF cond
                     THEN /\ ntrace' = Append(ntrace, EvCaller("cond", "true", nctx'))
                          /\ frames' = [frames EXCEPT ![Len(frames)].index = 0,
                                                      ![Len(frames)].iter = @ + 1]
                     ELSE /\ ntrace' = ntrace \o << EvCaller("cond", "false", nctx'),
                                                    EvCaller("end", "false", nctx') >>
                          /\ frames' = PopAndAdvance(frames)
    /\ UNCHANGED <<npc, nerr>>

InitNested == VMReady(<<>>) /\ ExecIdle /\ LookupIdle /\ OtherIdle

NextNested ==
    \/ NestEnter /\ UNCHANGED <<vmVars, execVars, lookupVars, visitVars, runs>>
    \/ NestOp /\ UNCHANGED <<vmVars, execVars, lookupVars, visitVars, runs>>
    \/ NestIf /\ UNCHANGED <<vmVars, execVars, lookupVars, visitVars, runs>>
    \/ NestWhile /\ UNCHANGED <<vmVars, execVars, lookupVars, visitVars, runs>>
    \/ NestReturnTop /\ UNCHANGED <<vmVars, execVars, lookupVars, visitVars, runs>>
    \/ NestReturnIf /\ UNCHANGED <<vmVars, execVars, lookupVars, visitVars, runs>>
    \/ NestReturnWhile /\ UNCHANGED <<vmVars, execVars, lookupVars, visitVars, runs>>

SpecNested == InitNested /\ [][NextNested]_vars

(***************************************************************************)
(* Properties of nested blocks (checked under SpecNested).                 *)
(***************************************************************************)
IsIfEnd(e) == e.ev = "end" /\ e.op = "If"

\* the first event after the i-th that is not the return of an If's handler
\* (Len(ntrace) + 1 when there is none)
RECURSIVE AfterIfs(_)
AfterIfs(i) ==
    IF i + 1 > Len(ntrace) THEN i + 1
    ELSE IF IsIfEnd(ntrace[i + 1]) THEN AfterIfs(i + 1)
    ELSE i + 1

\* the i-th event is followed by another one, or would be if there were one
\* to come: the outermost execBlock has returned
Settled(i) == i < Len(ntrace) \/ npc = "done"

SameButSignal(c, d) == [c EXCEPT !.ctrlFlow = d.ctrlFlow] = d

\* C12: a Break raised in the body of a While is consumed at that While: the
\* loop ends there with the signal back at NextOpcode and the context
\* otherwise as the Break left it, the same as when the loop ends on a false
\* condition, and the enclosing block goes on with the instruction after the
\* While; a Continue ends the iteration only: no further instruction of the
\* body runs, the condition is evaluated again, and when it holds the body
\* starts again
C12_BreakAndContinueAtWhile ==
    \A i \in 1..Len(ntrace) :
        LET e == ntrace[i]
            j == AfterIfs(i)
        IN /\ (e.ev = "op" /\ e.op = "Break" /\ e.loops > 0 /\ Settled(j - 1)) =>
                 /\ j <= Len(ntrace)
                 /\ ntrace[j].ev = "end" /\ ntrace[j].op = "While" /\ ntrace[j].res = "break"
                 /\ ntrace[j].depth < e.depth
                 /\ ntrace[j].loops = e.loops - 1
                 /\ ntrace[j].ctx = [e.ctx EXCEPT !.ctrlFlow = ctrlFlowTypeNextOpcode]
           /\ (e.ev = "end" /\ e.op = "While" /\ e.res \in {"break", "false"}) =>
                 /\ e.ctx.ctrlFlow = ctrlFlowTypeNextOpcode
                 /\ i > 1 /\ SameButSignal(ntrace[i - 1].ctx, e.ctx)
                 /\ (e.more /\ Settled(i)) =>
                       /\ i < Len(ntrace)
                       /\ ntrace[i + 1].ev \in {"op", "cond"}
                       /\ ntrace[i + 1].depth = e.depth
                       /\ ntrace[i + 1].index = e.index + 1
           /\ (e.ev = "op" /\ e.op = "Continue" /\ e.loops > 0 /\ Settled(j - 1)) =>
                 /\ j <= Len(ntrace)
                 /\ ntrace[j].ev = "cond" /\ ntrace[j].op = "While"
                 /\ ntrace[j].depth < e.depth
                 /\ ntrace[j].loops = e.loops - 1
                 /\ ntrace[j].ctx = [e.ctx EXCEPT !.ctrlFlow = ctrlFlowTypeNextOpcode]
                 /\ (ntrace[j].res = "true" /\ Settled(j)) =>
                       /\ j < Len(ntrace)
                       /\ ntrace[j + 1].depth = ntrace[j].depth + 1
                       /\ ntrace[j + 1].index = 0

\* a While whose body is Break, Nop, with a Nop after it: the Break ends
\* the loop, the Nop of the body is skipped and the Nop after the While runs
C12_Witness ==
    /\ npc = "done"
    /\ nerr = Nil
    /\ nctx.ctrlFlow = ctrlFlowTypeNextOpcode
    /\ Len(ntrace) = 4
    /\ ntrace[1].ev = "cond" /\ ntrace[1].op = "While" /\ ntrace[1].res = "true"
    /\ ntrace[2].ev = "op" /\ ntrace[2].op = "Break" /\ ntrace[2].more
    /\ ntrace[3].ev = "end" /\ ntrace[3].op = "While" /\ ntrace[3].res = "break"
    /\ ntrace[4].ev = "op" /\ ntrace[4].op = "Nop" /\ ntrace[4].depth = 1 /\ ntrace[4].index = 1

\* C14: when the body of an If ends with the signal at Break, Continue or
\* FnReturn, the If's handler returns with the context as the body's last
\* handler left it and the block holding the If runs no further instruction;
\* outside every While the signal reaches the outermost caller.  execBlock
\* writes neither the signal nor the carried value: when the outermost
\* execBlock has returned the context is what the last handler left
C14_SignalPropagates ==
    /\ \A i \in 1..Len(ntrace) :
          LET e == ntrace[i] IN
          (e.ev = "end" /\ e.op = "If" /\ e.res = "body") =>
              /\ i > 1 /\ e.ctx = ntrace[i - 1].ctx
              /\ (e.ctx.ctrlFlow # ctrlFlowTypeNextOpcode /\ i < Len(ntrace)) =>
                    ntrace[i + 1].depth < e.depth
              /\ (e.ctx.ctrlFlow # ctrlFlowTypeNextOpcode /\ e.loops = 0) =>
                    /\ \A k \in (i + 1)..Len(ntrace) : IsIfEnd(ntrace[k])
                    /\ nctx = e.ctx
    /\ (npc = "done" /\ ntrace # <<>>) => nctx = ntrace[Len(ntrace)].ctx

\* an If in the body of an If: the inner body raises FnReturn with a value,
\* and neither the Nop after the inner If nor the one after the outer If runs
C14_Witness ==
    /\ npc = "done"
    /\ nerr = Nil
    /\ nctx.ctrlFlow = ctrlFlowTypeFnReturn
    /\ nctx.retVal = << 42 >>
    /\ Len(ntrace) = 5
    /\ ntrace[2].ev = "cond" /\ ntrace[2].op = "If" /\ ntrace[2].depth = 2
    /\ ntrace[3].ev = "op" /\ ntrace[3].op = "Return" /\ ntrace[3].depth = 3
    /\ IsIfEnd(ntrace[4]) /\ ntrace[4].more
    /\ IsIfEnd(ntrace[5]) /\ ntrace[5].more /\ ntrace[5].depth = 1

(***************************************************************************)
(* execBlock on two execution contexts of one VM, interleaved: each caller *)
(* makes its own execContext (as checkEntities does at line 154) and gives *)
(* it to execBlock, which hands it to the handlers (line 222).  runs[id]   *)
(* is the call on context id, with the fields of the single call above.    *)
(***************************************************************************)
CtxIds == {1, 2}

TwoBlocks == UNION {[1..n -> {1}] : n \in 1..MaxTwoInstr}

\* what a handler may do: leave a signal and a value, and return an error or nil
TwoOutcomes ==
    [flow : CtrlFlowTypes, ret : RetVals, err : {Nil, << errDivideByZero >>}]

Run(block) ==
    [xpc |-> "loop", instrList |-> block, instrIndex |-> 0,
     ctx |-> ExecContext(ctrlFlowTypeNextOpcode, Nil),
     ctx0 |-> ExecContext(ctrlFlowTypeNextOpcode, Nil),
     execErr |-> Nil, executed |-> <<>>]

\* how many handlers have run so far, on all contexts
Ran == Len(runs[1].executed) + Len(runs[2].executed)

\* a handler invocation: the seq-th of all, with the signal and the value
\* of its context before and after
TwoRec(seq, index, flowBefore, out) ==
    [seq |-> seq, index |-> index, flowBefore |-> flowBefore,
     flowAfter |-> out.flow, retAfter |-> out.ret, err |-> out.err]

\* both callers enter execBlock, each with a block and a fresh context
TwoEnter ==
    /\ runs = <<>>
    /\ \E b1 \in TwoBlocks, b2 \in TwoBlocks : runs' = << Run(b1), Run(b2) >>

\* line 220, on the context of the call
TwoLoopCondFirstCtx(id) ==
    /\ runs[id].instrIndex < Len(runs[id].instrList)
    /\ runs[1].ctx.ctrlFlow = ctrlFlowTypeNextOpcode

TwoLoopCond(id) ==
    /\ runs[id].instrIndex < Len(runs[id].instrList)
    /\ runs[id].ctx.ctrlFlow = ctrlFlowTypeNextOpcode

\* lines 221-224: one iteration of the call on context id
TwoInstr(id) ==
    /\ runs # <<>>
    /\ runs[id].xpc = "loop"
    /\ TwoLoopCond(id)
    /\ \E out \in TwoOutcomes :
          runs' = [runs EXCEPT
                     ![id].ctx = [@ EXCEPT !.ctrlFlow = out.flow, !.retVal = out.ret],
                     ![id].executed = Append(@, TwoRec(Ran + 1, runs[id].instrIndex,
                                                       runs[id].ctx.ctrlFlow, out)),
                     ![id].execErr = out.err,
                     ![id].xpc = IF out.err # Nil THEN "done" ELSE "loop",
                     ![id].instrIndex = IF out.err # Nil THEN @ ELSE @ + 1]

\* line 227: the loop of the call on context id has ended
TwoReturn(id) ==
    /\ runs # <<>>
    /\ runs[id].xpc = "loop"
    /\ ~TwoLoopCond(id)
    /\ runs' = [runs EXCEPT ![id].xpc = "done"]

InitTwo == VMReady(<<>>) /\ ExecIdle /\ LookupIdle /\ OtherIdle

NextTwo ==
    \/ TwoEnter /\ UNCHANGED <<vmVars, execVars, lookupVars, visitVars, nestVars>>
    \/ (\E id \in CtxIds : TwoInstr(id))
          /\ UNCHANGED <<vmVars, execVars, lookupVars, visitVars, nestVars>>
    \/ (\E id \in CtxIds : TwoReturn(id))
          /\ UNCHANGED <<vmVars, execVars, lookupVars, visitVars, nestVars>>

SpecTwo == InitTwo /\ [][NextTwo]_vars

(***************************************************************************)
(* Properties of two contexts (checked under SpecTwo).                     *)
(***************************************************************************)
\* the signal and the value of context id are what its own last handler
\* left (or what they were on entry), each of its handlers found the signal
\* at NextOpcode, and its block ended before the last instruction only on
\* its own signal or its own error
OwnSignalOnly(id) ==
    LET r == runs[id]
        n == Len(r.executed)
    IN /\ r.ctx.ctrlFlow = IF n = 0 THEN r.ctx0.ctrlFlow ELSE r.executed[n].flowAfter
       /\ r.ctx.retVal = IF n = 0 THEN r.ctx0.retVal ELSE r.executed[n].retAfter
       /\ \A i \in 1..n :
             /\ r.executed[i].index = i - 1
             /\ r.executed[i].flowBefore = ctrlFlowTypeNextOpcode
       /\ (r.xpc = "done" /\ n < Len(r.instrList)) =>
             /\ n > 0
             /\ \/ r.executed[n].flowAfter # ctrlFlowTypeNextOpcode
                \/ r.executed[n].err # Nil
       /\ (r.xpc = "done" /\ r.execErr # Nil) => (n > 0 /\ r.executed[n].err = r.execErr)

\* C16: with block executions on two contexts interleaved, each context's
\* signal and value are set by the handlers running on that context only,
\* and a signal set on one context never ends the other context's block
C16_ContextsIndependent ==
    runs # <<>> => \A id \in CtxIds : OwnSignalOnly(id)

\* context 1 took a Break and a value from its first handler; context 2 ran
\* a handler before that and one after it, and still holds NextOpcode and nil
C16_Witness ==
    /\ runs # <<>>
    /\ runs[1].xpc = "done" /\ runs[2].xpc = "done"
    /\ Len(runs[1].instrList) = 2 /\ Len(runs[1].executed) = 1
    /\ runs[1].executed[1].seq = 2
    /\ runs[1].ctx.ctrlFlow = ctrlFlowTypeBreak /\ runs[1].ctx.retVal = << 42 >>
    /\ Len(runs[2].executed) = 2
    /\ runs[2].executed[1].seq = 1 /\ runs[2].executed[2].seq = 3
    /\ runs[2].ctx.ctrlFlow = ctrlFlowTypeNextOpcode /\ runs[2].ctx.retVal = Nil
    /\ runs[2].execErr = Nil

====
